---------------------------- MODULE Spec2Model ----------------------------
(***************************************************************************)
(* Pix2Struct DocVQA demo: the Gradio request handler collect_inputs       *)
(* (app.py) and the helpers load_model, convert_pdf_to_image, generate and *)
(* run_doc_vqa (pix2struct_base_run.py).                                   *)
(*                                                                         *)
(* Python strings are sequences of one-character strings, Python lists are *)
(* sequences, None is the handle 0 / an absent file.  The pretrained model,*)
(* the PDF renderer and the image decoder are external: what they return   *)
(* is a nondeterministic choice, what the repository's code does with it   *)
(* is translated from the source.                                          *)
(***************************************************************************)
EXTENDS Integers, Sequences, FiniteSets, TLC

(* ------------------------------ bounds -------------------------------- *)

\* longest question text typed into the textbox
MaxLen == 4
\* most pages a PDF on disk renders to
MaxPages == 3
\* longest question list of a direct generate / run_doc_vqa call
MaxQuestions == 2
\* load_model invocations the model follows before it stops counting
MaxLoads == 2

(* --------------------------- Python strings --------------------------- *)

\* A character is a one-character string of U+0000..U+00FF, the characters a
\* TLA+ string can hold.  The control characters and the no-break space are
\* written raw between the quotes.

\* characters a question text is typed from: two letters, a space, LF and
\* the no-break space (U+00A0)
TextAlphabet == {"a", "b", " ", "\n", " "}

\* str.splitlines() line boundaries: LF, CR, FF, VT (U+000B), FS (U+001C),
\* GS (U+001D), RS (U+001E), NEL (U+0085); U+2028 and U+2029 lie outside
\* the character set
LineBoundaries == {"\n", "\r", "\f", "", "", "", "", ""}

\* characters str.strip() removes (str.isspace): space, TAB, LF, CR, FF, VT,
\* FS, GS, RS, US (U+001F), NEL (U+0085), NBSP (U+00A0); the Unicode spaces
\* U+1680, U+2000..U+200A, U+2028, U+2029, U+202F, U+205F, U+3000 lie
\* outside the character set
Whitespace == {" ", "\t", "\n", "\r", "\f", "", "", "", "",
               "", "", " "}

\* the capitals of the character set (A-Z, U+00C0..U+00DE without U+00D7)
\* and, position by position, what str.lower() maps them to
UpperCase == <<"A", "B", "C", "D", "E", "F", "G", "H", "I", "J", "K", "L", "M",
               "N", "O", "P", "Q", "R", "S", "T", "U", "V", "W", "X", "Y", "Z",
               "À", "Á", "Â", "Ã", "Ä", "Å", "Æ", "Ç", "È", "É", "Ê", "Ë", "Ì",
               "Í", "Î", "Ï", "Ð", "Ñ", "Ò", "Ó", "Ô", "Õ", "Ö", "Ø", "Ù", "Ú",
               "Û", "Ü", "Ý", "Þ">>

LowerCase == <<"a", "b", "c", "d", "e", "f", "g", "h", "i", "j", "k", "l", "m",
               "n", "o", "p", "q", "r", "s", "t", "u", "v", "w", "x", "y", "z",
               "à", "á", "â", "ã", "ä", "å", "æ", "ç", "è", "é", "ê", "ë", "ì",
               "í", "î", "ï", "ð", "ñ", "ò", "ó", "ô", "õ", "ö", "ø", "ù", "ú",
               "û", "ü", "ý", "þ">>

\* str.lower() on one character
LowerChar(c) ==
    IF \E k \in 1..Len(UpperCase) : UpperCase[k] = c
    THEN LowerCase[CHOOSE k \in 1..Len(UpperCase) : UpperCase[k] = c]
    ELSE c

\* str.lower()
lower(s) == [i \in 1..Len(s) |-> LowerChar(s[i])]

\* str.rfind(c) as a 1-based position, 0 when c does not occur (Python: -1)
rfind(s, c) ==
    IF \E i \in 1..Len(s) : s[i] = c
    THEN CHOOSE i \in 1..Len(s) : s[i] = c /\ \A j \in (i+1)..Len(s) : s[j] # c
    ELSE 0

\* s[i:] for a 1-based position i
Tail_from(s, i) == SubSeq(s, i, Len(s))

RECURSIVE lstrip(_)
lstrip(s) ==
    IF s # <<>> /\ Head(s) \in Whitespace THEN lstrip(Tail(s)) ELSE s

RECURSIVE rstrip(_)
rstrip(s) ==
    IF s # <<>> /\ s[Len(s)] \in Whitespace
    THEN rstrip(SubSeq(s, 1, Len(s) - 1))
    ELSE s

\* str.strip()
strip(s) == rstrip(lstrip(s))

\* str.splitlines(): i is the start of the current line, j the scan position
RECURSIVE SplitLinesFrom(_, _, _)
SplitLinesFrom(s, i, j) ==
    IF j > Len(s)
    THEN IF i <= Len(s) THEN <<SubSeq(s, i, Len(s))>> ELSE <<>>
    ELSE IF s[j] \in LineBoundaries
         THEN LET k == IF s[j] = "\r" /\ j < Len(s) /\ s[j+1] = "\n"
                       THEN j + 2 ELSE j + 1
              IN  <<SubSeq(s, i, j - 1)>> \o SplitLinesFrom(s, k, k)
         ELSE SplitLinesFrom(s, i, j + 1)

splitlines(s) == SplitLinesFrom(s, 1, 1)

\* sep.join(parts)
RECURSIVE join(_, _)
join(sep, parts) ==
    IF parts = <<>> THEN <<>>
    ELSE IF Len(parts) = 1 THEN parts[1]
    ELSE parts[1] \o sep \o join(sep, Tail(parts))

\* [f(x) for x in xs if p(x)] with f = strip, p = bool(strip(x))
RECURSIVE StrippedNonBlank(_)
StrippedNonBlank(lines) ==
    IF lines = <<>> THEN <<>>
    ELSE IF strip(Head(lines)) # <<>>
         THEN <<strip(Head(lines))>> \o StrippedNonBlank(Tail(lines))
         ELSE StrippedNonBlank(Tail(lines))

\* list(zip(a, b)): as long as the shorter argument
zip(a, b) ==
    LET n == IF Len(a) <= Len(b) THEN Len(a) ELSE Len(b)
    IN  [i \in 1..n |-> <<a[i], b[i]>>]

(* ---------------------------- Python paths ---------------------------- *)

\* os.path.splitext(p)[1] (posix: sep "/", extsep ".")
splitext_ext(p) ==
    LET sepIndex == rfind(p, "/")
        dotIndex == rfind(p, ".")
    IN  IF dotIndex > sepIndex
           /\ \E k \in (sepIndex + 1)..(dotIndex - 1) : p[k] # "."
        THEN Tail_from(p, dotIndex)
        ELSE <<>>

\* pathlib.Path(p) drops trailing separators and "." components
RECURSIVE path_normal(_)
path_normal(p) ==
    IF p = <<>> THEN p
    ELSE IF p[Len(p)] = "/"
         THEN path_normal(SubSeq(p, 1, Len(p) - 1))
    ELSE IF p[Len(p)] = "." /\ (Len(p) = 1 \/ p[Len(p) - 1] = "/")
         THEN path_normal(SubSeq(p, 1, Len(p) - 1))
    ELSE p

\* pathlib.Path(p).name: the last component, "" when there is none
path_name(p) ==
    LET q == path_normal(p)
    IN  Tail_from(q, rfind(q, "/") + 1)

\* pathlib.Path(p).suffix
path_suffix(p) ==
    LET name == path_name(p)
        i    == rfind(name, ".")
    IN  IF 1 < i /\ i < Len(name) THEN Tail_from(name, i) ELSE <<>>


(* ------------------------- program constants -------------------------- *)

\* app.py: allowed_extensions
allowed_extensions == << <<".", "p", "d", "f">>, <<".", "p", "n", "g">>,
                         <<".", "j", "p", "g">>, <<".", "j", "p", "e", "g">> >>

MsgNoFile == <<"P", "l", "e", "a", "s", "e", " ", "u", "p", "l", "o", "a", "d",
               " ", "a", " ", "f", "i", "l", "e", " ", "f", "i", "r", "s", "t", ".">>

MsgInvalidTypePrefix ==
    <<"I", "n", "v", "a", "l", "i", "d", " ", "f", "i", "l", "e", " ", "t", "y",
      "p", "e", ".", " ", "P", "l", "e", "a", "s", "e", " ", "u", "p", "l", "o",
      "a", "d", " ", "o", "n", "e", " ", "o", "f", ":", " ">>

MsgNoQuestion ==
    <<"P", "l", "e", "a", "s", "e", " ", "e", "n", "t", "e", "r", " ", "a", "t",
      " ", "l", "e", "a", "s", "t", " ", "o", "n", "e", " ", "q", "u", "e", "s",
      "t", "i", "o", "n", ".">>

(* ---------------------- the external collaborators -------------------- *)

\* what a file on disk holds: a PDF that renders to `pages` pages, a raster
\* image, or bytes neither library can read
Contents ==
    [kind : {"pdf"}, pages : 0..MaxPages]
        \cup {[kind |-> "image", pages |-> 0], [kind |-> "corrupt", pages |-> 0]}

NotRead == [kind |-> "unread", pages |-> 0]

NoImage == [src |-> "none", page |-> 0]

\* strings the model may decode for a batch row
Answers == {<<>>, <<"4", "2">>}

\* pdf2image.convert_from_path: one image per page, or an error
convert_from_path(content) ==
    IF content.kind = "pdf"
    THEN [exc |-> "", images |-> [i \in 1..content.pages |-> [src |-> "pdf", page |-> i]]]
    ELSE [exc |-> "PDFPageCountError", images |-> <<>>]

\* PIL.Image.open: the decoded image, or an error
Image_open(content) ==
    IF content.kind = "image"
    THEN [exc |-> "", image |-> [src |-> "file", page |-> 0]]
    ELSE [exc |-> "UnidentifiedImageError", image |-> NoImage]

\* processor(images=..., text=...): one batch row per (image, text) pair
processor_call(images, text) == zip(images, text)

\* model.generate + processor.batch_decode: one decoded string per batch row,
\* the strings themselves chosen by the model
batch_decode(inputs) == [1..Len(inputs) -> Answers]

(* ------------------------------ results ------------------------------- *)

\* What a call produced.  exc = "" when it returned; kind names the field
\* holding the returned value (model and processor for a returned handle).
\* decoder, gen_model, gen_processor, decoded and loaded record what the
\* call did on the way.
NoRet ==
    [exc |-> "", kind |-> "none", text |-> <<>>, pairs |-> <<>>,
     image |-> NoImage, decoded |-> <<>>, decoder |-> "",
     gen_model |-> 0, gen_processor |-> 0, loaded |-> 0,
     model |-> 0, processor |-> 0]

Raise(r, e) == [r EXCEPT !.exc = e, !.kind = "none"]

(* ------------------------ pix2struct_base_run.py ---------------------- *)

\* load_model: the n-th invocation in the process returns handle n
load_model(n) == [model |-> n + 1, processor |-> n + 1]

\* images[k] with an index past the end clamped to the last element
list_getitem_clamped(images, k) ==
    LET n   == Len(images)
        idx == IF k < 0 THEN k + n ELSE IF k >= n THEN n - 1 ELSE k
    IN  IF idx < 0 \/ idx >= n
        THEN [exc |-> "IndexError", image |-> NoImage]
        ELSE [exc |-> "", image |-> images[idx + 1]]

\* images[k] for a Python list and a 0-based index k
list_getitem(images, k) ==
    LET n   == Len(images)
        idx == IF k < 0 THEN k + n ELSE k
    IN  IF idx < 0 \/ idx >= n
        THEN [exc |-> "IndexError", image |-> NoImage]
        ELSE [exc |-> "", image |-> images[idx + 1]]

\* convert_pdf_to_image indexing with page_no itself
convert_pdf_to_image_zero_based(content, page_no) ==
    LET rendered == convert_from_path(content)
    IN  IF rendered.exc # ""
        THEN [exc |-> rendered.exc, image |-> NoImage]
        ELSE list_getitem(rendered.images, page_no)

convert_pdf_to_image(content, page_no) ==
    LET rendered == convert_from_path(content)
    IN  IF rendered.exc # ""
        THEN [exc |-> rendered.exc, image |-> NoImage]
        ELSE list_getitem(rendered.images, page_no - 1)

\* [img for _ in range(len(questions) - 1)]
replicate_image_one_short(img, questions) ==
    [i \in 1..(Len(questions) - 1) |-> img]

\* [img for _ in range(len(questions))]
replicate_image(img, questions) == [i \in 1..Len(questions) |-> img]

\* generate: the set of results the call may return
generate(model, processor, img, questions) ==
    LET inputs == processor_call(replicate_image(img, questions), questions)
    IN  { [NoRet EXCEPT !.kind = "pairs",
                        !.pairs = zip(questions, decoded),
                        !.decoded = decoded,
                        !.image = img,
                        !.gen_model = model,
                        !.gen_processor = processor]
          : decoded \in batch_decode(inputs) }

\* a handle is loaded on every call
handle_absent_always(model, processor) == TRUE

\* model is None or processor is None
handle_absent(model, processor) == model = 0 \/ processor = 0

\* run_doc_vqa; nloads is the number of load_model invocations so far
run_doc_vqa(file_path, questions, page_no, model, processor, content, nloads) ==
    LET absent    == handle_absent(model, processor)
        handle    == IF absent THEN load_model(nloads)
                     ELSE [model |-> model, processor |-> processor]
        loaded    == IF absent THEN 1 ELSE 0
        extension == lower(path_suffix(file_path))
        isPdf     == extension = <<".", "p", "d", "f">>
        opened    == IF isPdf THEN convert_pdf_to_image(content, page_no)
                     ELSE Image_open(content)
        decoder   == IF isPdf THEN "convert_pdf_to_image" ELSE "Image.open"
    IN  IF opened.exc # ""
        THEN { Raise([NoRet EXCEPT !.decoder = decoder, !.loaded = loaded],
                     opened.exc) }
        ELSE { [r EXCEPT !.decoder = decoder, !.loaded = loaded]
               : r \in generate(handle.model, handle.processor,
                                opened.image, questions) }

(* -------------------------------- app.py ------------------------------ *)

Elements(seq) == {seq[i] : i \in 1..Len(seq)}

\* f"{q}: {a}" for q, a in results
format_results(results) ==
    [i \in 1..Len(results) |-> results[i][1] \o <<":", " ">> \o results[i][2]]

\* the missing-file check left out
file_missing_never(file_obj) == FALSE

\* file_obj is None
file_missing(file_obj) == ~file_obj.present

\* the extension compared as typed
file_ext_case_sensitive(file_path) == splitext_ext(file_path)

\* os.path.splitext(file_path)[1].lower()
file_ext_of(file_path) == lower(splitext_ext(file_path))

\* [line for line in texts.splitlines() if line.strip()]
RECURSIVE NonBlankUntrimmed(_)
NonBlankUntrimmed(lines) ==
    IF lines = <<>> THEN <<>>
    ELSE IF strip(Head(lines)) # <<>>
         THEN <<Head(lines)>> \o NonBlankUntrimmed(Tail(lines))
         ELSE NonBlankUntrimmed(Tail(lines))

parse_questions_untrimmed(texts) == NonBlankUntrimmed(splitlines(texts))

\* [line.strip() for line in texts.splitlines() if line]
RECURSIVE StrippedNonEmpty(_)
StrippedNonEmpty(lines) ==
    IF lines = <<>> THEN <<>>
    ELSE IF Head(lines) # <<>>
         THEN <<strip(Head(lines))>> \o StrippedNonEmpty(Tail(lines))
         ELSE StrippedNonEmpty(Tail(lines))

parse_questions_keep_blank(texts) == StrippedNonEmpty(splitlines(texts))

\* [line.strip() for line in texts.splitlines() if line.strip()]
parse_questions(texts) == StrippedNonBlank(splitlines(texts))

\* collect_inputs; file_obj is [present, name], model and processor are the
\* module globals MODEL and PROCESSOR
collect_inputs(file_obj, texts, content, model, processor, nloads) ==
    LET file_path == file_obj.name
        file_ext  == file_ext_of(file_path)
        questions == parse_questions(texts)
    IN  IF file_missing(file_obj)
        THEN { [NoRet EXCEPT !.kind = "str", !.text = MsgNoFile] }
        ELSE IF file_ext \notin Elements(allowed_extensions)
        THEN { [NoRet EXCEPT !.kind = "str",
                             !.text = MsgInvalidTypePrefix
                                      \o join(<<",", " ">>, allowed_extensions)] }
        ELSE IF questions = <<>>
        THEN { [NoRet EXCEPT !.kind = "str", !.text = MsgNoQuestion] }
        ELSE { IF r.exc # "" THEN r
               ELSE [r EXCEPT !.kind = "str",
                              !.text = join(<<"\n">>, format_results(r.pairs))]
               : r \in run_doc_vqa(file_path, questions, 1, model, processor,
                                   content, nloads) }

(* ------------------------------- inputs ------------------------------- *)

RECURSIVE SeqsUpTo(_, _)
SeqsUpTo(S, n) ==
    IF n = 0 THEN {<<>>}
    ELSE LET shorter == SeqsUpTo(S, n - 1)
         IN  shorter \cup {Append(q, x) : q \in shorter, x \in S}

\* question texts the user may type
Texts == SeqsUpTo(TextAlphabet, MaxLen)

\* paths of uploaded files
Paths ==
    { <<"a", ".", "p", "d", "f">>, <<"b", ".", "P", "D", "F">>,
      <<"c", ".", "p", "n", "g">>, <<"d", ".", "J", "p", "g">>,
      <<"e", ".", "j", "p", "e", "g">>, <<"f", ".", "d", "o", "c", "x">>,
      <<"g">>, <<".", "p", "d", "f">>,
      <<"h", ".", "p", "d", "f", ".", "t", "x", "t">>,
      <<"i", ".", "p", "n", "g", "/", "j">>,
      <<"a", ".", "p", "d", "f", "/">>, <<"É", ".", "P", "n", "G">>,
      <<"k", ".", "P", "D", "É">> }

\* paths handed to run_doc_vqa by a direct caller
RunPaths ==
    { <<"a", ".", "p", "d", "f">>, <<"b", ".", "P", "D", "F">>,
      <<"c", ".", "p", "n", "g">>, <<".", "p", "d", "f">>,
      <<"a", ".", "p", "d", "f", "/">>, <<"x", ".", "P", "d", "f", "/", ".">>,
      <<".", ".", "p", "d", "f">> }

NoFile == [present |-> FALSE, name |-> <<>>]

FileObjs == {NoFile} \cup {[present |-> TRUE, name |-> p] : p \in Paths}

\* questions of a direct caller's list
Questions == { <<"a">>, <<"a", " ", "a">> }

\* non-empty question lists of a direct caller
QuestionLists == SeqsUpTo(Questions, MaxQuestions) \ {<<>>}

PageNos == (0 - (MaxPages + 1))..(MaxPages + 1)

Images == {[src |-> "file", page |-> 0], [src |-> "pdf", page |-> 1]}

NoArgs ==
    [file_obj |-> NoFile, texts |-> <<>>, file_path |-> <<>>,
     questions |-> <<>>, page_no |-> 0, model |-> 0, processor |-> 0,
     img |-> NoImage]

(* --------------------------- the state machine ------------------------ *)

VARIABLES
    MODEL,      \* app.py: the model of the handle loaded at import
    PROCESSOR,  \* app.py: the processor of the handle loaded at import
    loads,      \* load_model invocations in this process so far
    pc,         \* "idle": waiting for a call; "done": a call has ended
    op,         \* the function called last
    args,       \* its arguments
    disk,       \* what the call read at the path, NotRead if it read nothing
    ret         \* what the call produced

vars == <<MODEL, PROCESSOR, loads, pc, op, args, disk, ret>>

\* after import of app.py: MODEL, PROCESSOR = load_model()
Init ==
    /\ MODEL = load_model(0).model
    /\ PROCESSOR = load_model(0).processor
    /\ loads = 1
    /\ pc = "idle"
    /\ op = "none"
    /\ args = NoArgs
    /\ disk = NotRead
    /\ ret = NoRet

Finish(name, a, content, r) ==
    /\ loads + r.loaded <= MaxLoads
    /\ loads' = loads + r.loaded
    /\ pc' = "done"
    /\ op' = name
    /\ args' = a
    /\ disk' = IF r.decoder = "" THEN NotRead ELSE content
    /\ ret' = r
    /\ UNCHANGED <<MODEL, PROCESSOR>>

\* the Submit button: collect_inputs(file_obj, texts)
CallCollectInputs ==
    /\ pc = "idle"
    /\ \E file_obj \in FileObjs, texts \in Texts, content \in Contents :
         \E r \in collect_inputs(file_obj, texts, content, MODEL, PROCESSOR, loads) :
            Finish("collect_inputs",
                   [NoArgs EXCEPT !.file_obj = file_obj, !.texts = texts],
                   content, r)

\* a direct call run_doc_vqa(file_path, questions, page_no, model, processor)
CallRunDocVqa ==
    /\ pc = "idle"
    /\ \E file_path \in RunPaths, questions \in QuestionLists, page_no \in PageNos,
          handle \in {<<0, 0>>, <<MODEL, 0>>, <<MODEL, PROCESSOR>>},
          content \in Contents :
         \E r \in run_doc_vqa(file_path, questions, page_no, handle[1], handle[2],
                              content, loads) :
            Finish("run_doc_vqa",
                   [NoArgs EXCEPT !.file_path = file_path, !.questions = questions,
                                  !.page_no = page_no, !.model = handle[1],
                                  !.processor = handle[2]],
                   content, r)

\* a direct call generate(model, processor, img, questions)
CallGenerate ==
    /\ pc = "idle"
    /\ \E img \in Images, questions \in QuestionLists :
         \E r \in generate(MODEL, PROCESSOR, img, questions) :
            Finish("generate",
                   [NoArgs EXCEPT !.img = img, !.questions = questions,
                                  !.model = MODEL, !.processor = PROCESSOR],
                   NotRead, r)

\* a direct call convert_pdf_to_image(filename, page_no)
CallConvertPdfToImage ==
    /\ pc = "idle"
    /\ \E content \in Contents, page_no \in PageNos :
         LET got == convert_pdf_to_image(content, page_no)
             r   == IF got.exc # ""
                    THEN Raise([NoRet EXCEPT !.decoder = "convert_pdf_to_image"],
                               got.exc)
                    ELSE [NoRet EXCEPT !.decoder = "convert_pdf_to_image",
                                       !.kind = "image", !.image = got.image]
         IN  Finish("convert_pdf_to_image",
                    [NoArgs EXCEPT !.file_path = <<"a", ".", "p", "d", "f">>,
                                   !.page_no = page_no],
                    content, r)

\* a direct call load_model()
CallLoadModel ==
    /\ pc = "idle"
    /\ LET handle == load_model(loads)
       IN  Finish("load_model", NoArgs, NotRead,
                  [NoRet EXCEPT !.kind = "handle", !.loaded = 1,
                                !.model = handle.model,
                                !.processor = handle.processor])

\* the call's result has been delivered; the process waits for the next call
Return ==
    /\ pc = "done"
    /\ pc' = "idle"
    /\ op' = "none"
    /\ args' = NoArgs
    /\ disk' = NotRead
    /\ ret' = NoRet
    /\ UNCHANGED <<MODEL, PROCESSOR, loads>>

Next ==
    \/ CallCollectInputs
    \/ CallRunDocVqa
    \/ CallGenerate
    \/ CallConvertPdfToImage
    \/ CallLoadModel
    \/ Return

Spec == Init /\ [][Next]_vars

\* the Gradio application process: collect_inputs is the only entry point
NextApp ==
    \/ CallCollectInputs
    \/ Return

SpecApp == Init /\ [][NextApp]_vars

(* ------------------------------ properties ---------------------------- *)

Called(name) == pc = "done" /\ op = name

Returned == ret.exc = ""

\* two characters that are equal up to letter case
SameLetter(c, d) ==
    \/ c = d
    \/ \E k \in 1..Len(UpperCase) : {c, d} = {UpperCase[k], LowerCase[k]}

\* p ends with the extension e in some letter case, and e is p's extension:
\* the last path component holds a character other than "." before it
HasExtension(p, e) ==
    /\ Len(p) > Len(e)
    /\ \A i \in 1..Len(e) : SameLetter(p[Len(p) - Len(e) + i], e[i])
    /\ \E k \in 1..(Len(p) - Len(e)) :
          /\ p[k] # "."
          /\ \A j \in k..Len(p) : p[j] # "/"

\* e is the extension, in some letter case, of the last component of p as
\* pathlib reads it: after the component only separators and "." components
\* follow, and a character of the component precedes the extension
HasPathSuffix(p, e) ==
    \E n \in (Len(e) + 1)..Len(p) :
        /\ \A i \in 1..Len(e) : SameLetter(p[n - Len(e) + i], e[i])
        /\ p[n - Len(e)] # "/"
        /\ \A k \in (n + 1)..Len(p) :
              \/ p[k] = "/"
              \/ p[k] = "." /\ p[k - 1] = "/" /\ (k = Len(p) \/ p[k + 1] = "/")

AllowedList ==
    { <<".", "p", "d", "f">>, <<".", "p", "n", "g">>,
      <<".", "j", "p", "g">>, <<".", "j", "p", "e", "g">> }

HasAllowedExtension(p) == \E e \in AllowedList : HasExtension(p, e)

TextPleaseUpload ==
    <<"P", "l", "e", "a", "s", "e", " ", "u", "p", "l", "o", "a", "d", " ", "a",
      " ", "f", "i", "l", "e", " ", "f", "i", "r", "s", "t", ".">>

TextInvalidType ==
    <<"I", "n", "v", "a", "l", "i", "d", " ", "f", "i", "l", "e", " ", "t", "y",
      "p", "e", ".", " ", "P", "l", "e", "a", "s", "e", " ", "u", "p", "l", "o",
      "a", "d", " ", "o", "n", "e", " ", "o", "f", ":", " ", ".", "p", "d", "f",
      ",", " ", ".", "p", "n", "g", ",", " ", ".", "j", "p", "g", ",", " ", ".",
      "j", "p", "e", "g">>

TextEnterQuestion ==
    <<"P", "l", "e", "a", "s", "e", " ", "e", "n", "t", "e", "r", " ", "a", "t",
      " ", "l", "e", "a", "s", "t", " ", "o", "n", "e", " ", "q", "u", "e", "s",
      "t", "i", "o", "n", ".">>

\* every character of t is whitespace: t has only blank lines
OnlyBlankLines(t) == \A i \in 1..Len(t) : t[i] \in Whitespace

\* the spans <<i, j>> of t that are a line without its surrounding whitespace:
\* t[i] and t[j] are not whitespace, no line break lies between them, and
\* every other non-whitespace character is separated from them by a line break
QuestionSpans(t) ==
    { sp \in (1..Len(t)) \X (1..Len(t)) :
        /\ sp[1] <= sp[2]
        /\ t[sp[1]] \notin Whitespace
        /\ t[sp[2]] \notin Whitespace
        /\ \A k \in sp[1]..sp[2] : t[k] \notin LineBoundaries
        /\ \A k \in 1..(sp[1] - 1) :
              t[k] \notin Whitespace
                 => \E m \in (k + 1)..(sp[1] - 1) : t[m] \in LineBoundaries
        /\ \A k \in (sp[2] + 1)..Len(t) :
              t[k] \notin Whitespace
                 => \E m \in (sp[2] + 1)..(k - 1) : t[m] \in LineBoundaries }

\* the trimmed non-blank lines of t, in the order they are typed
ExpectedQuestions(t) ==
    LET spans == QuestionSpans(t)
    IN  [k \in 1..Cardinality(spans) |->
           LET sp == CHOOSE x \in spans :
                        Cardinality({o \in spans : o[1] < x[1]}) = k - 1
           IN  SubSeq(t, sp[1], sp[2])]

\* the lines "<question>: <answer>", each followed by a newline
RECURSIVE ExpectedLines(_, _, _)
ExpectedLines(qs, answers, k) ==
    IF k > Len(qs) THEN <<>>
    ELSE qs[k] \o <<":", " ">> \o answers[k] \o <<"\n">>
         \o ExpectedLines(qs, answers, k + 1)

\* the expected output: the lines, without the newline after the last one
ExpectedOutput(qs, answers) ==
    LET all == ExpectedLines(qs, answers, 1)
    IN  SubSeq(all, 1, Len(all) - 1)

\* C1: a non-empty question list of length N passed to generate or to
\* run_doc_vqa comes back as N pairs, and the first component of pair i is
\* question i
C1_AnswerSetAligned ==
    ((Called("generate") \/ Called("run_doc_vqa")) /\ Returned) =>
        /\ ret.kind = "pairs"
        /\ Len(ret.pairs) = Len(args.questions)
        /\ \A i \in 1..Len(args.questions) : ret.pairs[i][1] = args.questions[i]

C1_Witness ==
    /\ Called("run_doc_vqa")
    /\ Returned
    /\ Len(args.questions) = 2
    /\ args.questions[1] # args.questions[2]
    /\ Len(ret.pairs) = 2

\* the document of a collect_inputs request is one its decoder can read: a
\* PDF with a first page for a .pdf path, a raster image for any other
DocumentDecodable ==
    IF HasExtension(args.file_obj.name, <<".", "p", "d", "f">>)
    THEN disk.kind = "pdf" /\ disk.pages >= 1
    ELSE disk.kind = "image"

\* C2: with a file of an allowed extension that decodes and a text with a
\* non-blank line, collect_inputs returns the lines "<question>: <answer>"
\* joined by newlines, one per non-blank line of the text in input order,
\* the question being the line trimmed and the answer the model's decoded
\* answer of the same index; blank lines give no output line
C2_OutputLines ==
    (/\ Called("collect_inputs")
     /\ args.file_obj.present
     /\ HasAllowedExtension(args.file_obj.name)
     /\ ~OnlyBlankLines(args.texts)
     /\ DocumentDecodable) =>
        LET qs == ExpectedQuestions(args.texts)
        IN  /\ Returned
            /\ ret.kind = "str"
            /\ Len(ret.decoded) = Len(qs)
            /\ ret.text = ExpectedOutput(qs, ret.decoded)

C2_Witness ==
    /\ Called("collect_inputs")
    /\ Returned
    /\ args.texts = <<" ", "b", "\n", "a">>
    /\ ret.decoded = << <<"4", "2">>, <<>> >>
    /\ ret.text = <<"b", ":", " ", "4", "2", "\n", "a", ":", " ">>

\* C3: without a file collect_inputs returns "Please upload a file first.",
\* whatever the question text
C3_MissingFile ==
    (Called("collect_inputs") /\ ~args.file_obj.present) =>
        /\ Returned
        /\ ret.kind = "str"
        /\ ret.text = TextPleaseUpload

C3_Witness ==
    /\ Called("collect_inputs")
    /\ ~args.file_obj.present
    /\ args.texts = <<"a", "\n", "a">>
    /\ ret.text = TextPleaseUpload

\* C4: with a file whose extension, letter case ignored, is not .pdf, .png,
\* .jpg or .jpeg (or that has none), collect_inputs returns the invalid-type
\* message whatever the question text; with an allowed extension in any
\* letter case it does not return that message
C4_InvalidType ==
    (Called("collect_inputs") /\ args.file_obj.present) =>
        IF HasAllowedExtension(args.file_obj.name)
        THEN ~(Returned /\ ret.kind = "str" /\ ret.text = TextInvalidType)
        ELSE Returned /\ ret.kind = "str" /\ ret.text = TextInvalidType

C4_Witness ==
    /\ Called("collect_inputs")
    /\ args.file_obj.present
    /\ args.file_obj.name = <<"f", ".", "d", "o", "c", "x">>
    /\ args.texts = <<>>
    /\ ret.text = TextInvalidType

\* C5: with a file of an allowed extension and a text of blank lines only,
\* collect_inputs returns "Please enter at least one question." and runs no
\* inference
C5_EmptyQuestions ==
    (/\ Called("collect_inputs")
     /\ args.file_obj.present
     /\ HasAllowedExtension(args.file_obj.name)
     /\ OnlyBlankLines(args.texts)) =>
        /\ Returned
        /\ ret.kind = "str"
        /\ ret.text = TextEnterQuestion
        /\ ret.pairs = <<>>
        /\ ret.gen_model = 0
        /\ disk = NotRead

C5_Witness ==
    /\ Called("collect_inputs")
    /\ args.file_obj.name = <<"c", ".", "p", "n", "g">>
    /\ args.texts = <<" ", "\n", " ">>
    /\ ret.text = TextEnterQuestion

\* C6: on a PDF of P pages and 1 <= page_no <= P the rasterizer returns the
\* page_no-th rendered page (0-based index page_no - 1); run_doc_vqa calls
\* the rasterizer exactly when the path's lower-cased extension is .pdf
C6_PageSelected ==
    /\ (/\ Called("convert_pdf_to_image")
        /\ disk.kind = "pdf"
        /\ 1 <= args.page_no
        /\ args.page_no <= disk.pages) =>
           /\ Returned
           /\ ret.kind = "image"
           /\ ret.image = [src |-> "pdf", page |-> args.page_no]
    /\ Called("run_doc_vqa") =>
           /\ ret.decoder = "convert_pdf_to_image"
                 <=> HasPathSuffix(args.file_path, <<".", "p", "d", "f">>)
           /\ (/\ ret.decoder = "convert_pdf_to_image"
               /\ disk.kind = "pdf"
               /\ 1 <= args.page_no
               /\ args.page_no <= disk.pages) =>
                  /\ Returned
                  /\ ret.image = [src |-> "pdf", page |-> args.page_no]

C6_Witness ==
    /\ Called("convert_pdf_to_image")
    /\ disk = [kind |-> "pdf", pages |-> 3]
    /\ args.page_no = 1
    /\ ret.image = [src |-> "pdf", page |-> 1]

\* C7: on a PDF of P pages every rasterizer call with page_no > P fails
\* with an index error and returns no image
C7_PageOutOfRange ==
    (/\ Called("convert_pdf_to_image")
        \/ (Called("run_doc_vqa") /\ ret.decoder = "convert_pdf_to_image")
     /\ disk.kind = "pdf"
     /\ args.page_no > disk.pages) =>
        /\ ret.exc = "IndexError"
        /\ ret.kind = "none"
        /\ ret.image = NoImage
        /\ ret.pairs = <<>>

C7_Witness ==
    /\ Called("convert_pdf_to_image")
    /\ disk = [kind |-> "pdf", pages |-> 2]
    /\ args.page_no = 3
    /\ ret.exc = "IndexError"

\* the document of a collect_inputs request that passed validation could not
\* be decoded: an unreadable file, or a PDF without a first page
DecodeFailed ==
    /\ Called("collect_inputs")
    /\ ret.decoder # ""
    /\ \/ ret.decoder = "Image.open" /\ disk.kind # "image"
       \/ ret.decoder = "convert_pdf_to_image"
             /\ (disk.kind # "pdf" \/ disk.pages < 1)

\* C8: when a validated request's document cannot be decoded, collect_inputs
\* returns a non-empty string that is none of the three validation messages
C8_DecodeErrorReported ==
    DecodeFailed =>
        /\ Returned
        /\ ret.kind = "str"
        /\ ret.text # <<>>
        /\ ret.text \notin {TextPleaseUpload, TextInvalidType, TextEnterQuestion}

\* C9: in the application process load_model has run once, at startup, and
\* every inference call of a request gets the pair loaded then
C9_LoadedOnce ==
    /\ loads = 1
    /\ MODEL = 1
    /\ PROCESSOR = 1
    /\ Called("collect_inputs") =>
          /\ ret.loaded = 0
          /\ ret.gen_model \in {0, MODEL}
          /\ ret.gen_processor \in {0, PROCESSOR}
          /\ (ret.gen_model = 0) = (ret.gen_processor = 0)

C9_Witness ==
    /\ Called("collect_inputs")
    /\ Returned
    /\ ret.pairs # <<>>
    /\ ret.gen_model = 1
    /\ ret.gen_processor = 1
    /\ loads = 1

\* C10: on a PDF of P >= 1 pages, for every integer page_no, the rasterizer
\* returns the page at 1-based position page_no or fails
C10_OnlyRequestedPage ==
    (/\ Called("convert_pdf_to_image")
     /\ disk.kind = "pdf"
     /\ disk.pages >= 1
     /\ Returned) =>
        /\ 1 <= args.page_no
        /\ args.page_no <= disk.pages
        /\ ret.image = [src |-> "pdf", page |-> args.page_no]

=============================================================================
